---------------------------- MODULE Spec2Model ----------------------------
(***************************************************************************)
(* Gaussian error propagation of the FP notebooks: error_prop,            *)
(* error_prop_corr and congruence_trafo of S01_error_prop_01, with the    *)
(* notebook cells that call them.                                          *)
(*                                                                         *)
(* SymPy expressions are expression trees (records with an "op" field);    *)
(* diff and simplify are recursive operators on the trees; subs/evalf is   *)
(* exact evaluation of a tree at a point.  Numbers are exact: a value is   *)
(* <<n, d, r, k>>: (n/d)*sqrt(r), with d > 0, gcd(n,d) = 1 and            *)
(* r a square-free integer (r = 1: a rational; r < 0: an imaginary         *)
(* number, which is what SymPy's sqrt returns for a negative argument);    *)
(* a fourth component k multiplies by pi^k, so that pi stays exact.        *)
(* d = 0 marks the two non-finite outcomes: Zoo (a division by zero,       *)
(* SymPy's zoo/nan) and Irr (a sum the one-surd form cannot hold).         *)
(*                                                                         *)
(* The oscillator notebook (phase, the generate-data cell and the          *)
(* write-text-files cell) is a second specification, SpecOsc, over its     *)
(* own variables: NumPy floats are rationals that overflow to inf, angles  *)
(* are arctan(t) + k*pi, and the random source is a stream of states.      *)
(***************************************************************************)
EXTENDS Integers, Sequences, FiniteSets, TLC

VARIABLES
    pc,          \* the call or cell being executed
    f_new,       \* the expressions: f_new[1] is the f of the two propagators
    v_old,       \* the ordered list of variables (x of error_prop_corr)
    V_old,       \* the covariance matrix, a list of rows of expressions
    sum,         \* the local sum of the propagator being executed
    i, j,        \* its loop indices (1-based here, 0-based in Python)
    visited,     \* the index pairs whose summand was added, in order
    sig_z,       \* what error_prop returned
    sig_z_corr,  \* what error_prop_corr returned
    U,           \* what congruence_trafo returned
    raised,      \* the calls that ended in an exception
    point,       \* the substitution of the last subs cell
    val,         \* the values the substitution gave
    ns,          \* the namespace of the notebook: name -> bound object
    frame,       \* the loop targets x, sigma in the frame of error_prop
    \* the oscillator notebook
    opc,         \* the cells executed so far
    rng,         \* the state of the global random source np.random
    data,        \* the arrays the generate-data cell bound last
    runs,        \* the arrays of every execution of the generate-data cell
    files,       \* the text files written by np.savetxt
    ph,          \* the last call of phase: its arguments and its outcome
    amp,         \* a call of A: its arguments and its outcome
    \* the error-propagation notebook, cell by cell
    kernel,      \* the global names the cells rebind: name -> bound object
    shown,       \* the outputs of the top-to-bottom run, cell by cell
    reruns       \* the cells re-executed afterwards, with their outputs

vars_all == <<pc, f_new, v_old, V_old, sum, i, j, visited, sig_z, sig_z_corr,
              U, raised, point, val, ns, frame,
              opc, rng, data, runs, files, ph, amp,
              kernel, shown, reruns>>

\* the variables of the error-propagation notebook
vars_prop == <<pc, f_new, v_old, V_old, sum, i, j, visited, sig_z, sig_z_corr,
               U, raised, point, val, ns, frame>>

\* the variables of the oscillator notebook
vars_osc == <<opc, rng, data, runs, files, ph, amp>>

\* the variables of the cell-by-cell run
vars_cells == <<kernel, shown, reruns>>

\* no cell-by-cell run is observed
CellsNotRun ==
    /\ kernel = <<>>
    /\ shown = <<>>
    /\ reruns = <<>>

\* the oscillator notebook is not open
OscNotOpen ==
    /\ opc = "closed"
    /\ rng = 0
    /\ data = <<>>
    /\ runs = <<>>
    /\ files = <<>>
    /\ ph = <<>>
    /\ amp = <<>>

(***************************************************************************)
(* Exact numbers                                                           *)
(***************************************************************************)
Abs(n) == IF n < 0 THEN -n ELSE n

Sign(n) == IF n < 0 THEN -1 ELSE IF n = 0 THEN 0 ELSE 1

RECURSIVE GCD(_, _)
GCD(a, b) == IF b = 0 THEN a ELSE GCD(b, a % b)

\* the largest k with k*k dividing r (r > 0), searched from k upwards
RECURSIVE SquarePart(_, _)
SquarePart(r, k) ==
    IF k * k > r THEN 1
    ELSE IF r % (k * k) = 0 THEN k * SquarePart(r \div (k * k), k)
    ELSE SquarePart(r, k + 1)

Zoo == <<0, 0, 1, 0>>

Irr == <<1, 0, 1, 0>>

IsFinite(a) == a[2] # 0

\* (n/d)*sqrt(r)*pi^k in normal form; d # 0, r # 0
Norm(n, d, r, k) ==
    IF n = 0 THEN <<0, 1, 1, 0>>
    ELSE LET q  == SquarePart(Abs(r), 2)
             r1 == r \div (q * q)
             n1 == n * q * Sign(d)
             d1 == Abs(d)
             g  == GCD(Abs(n1), d1)
         IN  <<n1 \div g, d1 \div g, r1, k>>

Rat(n, d) == Norm(n, d, 1, 0)

IntV(n) == <<n, 1, 1, 0>>

PiV == <<1, 1, 1, 1>>

VNeg(a) == IF IsFinite(a) THEN <<-a[1], a[2], a[3], a[4]>> ELSE a

VMul(a, b) ==
    IF ~IsFinite(a) THEN a
    ELSE IF ~IsFinite(b) THEN b
    ELSE LET g1 == GCD(Abs(a[1]), b[2])
             g2 == GCD(Abs(b[1]), a[2])
             g3 == GCD(Abs(a[3]), Abs(b[3]))
             \* sqrt(r1)*sqrt(r2) = g3*sqrt((r1/g3)*(r2/g3))
             p  == Norm((a[1] \div g1) * (b[1] \div g2) * g3,
                        (a[2] \div g2) * (b[2] \div g1),
                        (a[3] \div g3) * (b[3] \div g3), a[4] + b[4])
         IN  IF a[3] < 0 /\ b[3] < 0 THEN VNeg(p) ELSE p

VAdd(a, b) ==
    IF ~IsFinite(a) THEN a
    ELSE IF ~IsFinite(b) THEN b
    ELSE IF a[1] = 0 THEN b
    ELSE IF b[1] = 0 THEN a
    ELSE IF a[3] = b[3] /\ a[4] = b[4]
         THEN LET g1 == GCD(a[2], b[2])
              IN  Norm(a[1] * (b[2] \div g1) + b[1] * (a[2] \div g1),
                       (a[2] \div g1) * b[2], a[3], a[4])
    ELSE Irr

\* 1/0 replaced by the finite value 0
VInv_ZeroForZero(a) ==
    IF ~IsFinite(a) THEN a
    ELSE IF a[1] = 0 THEN IntV(0)
    ELSE Norm(a[2], a[1] * a[3], a[3], -a[4])

\* 1 / ((n/d)*sqrt(r)*pi^k) = (d/(n*r))*sqrt(r)*pi^(-k)
VInv(a) ==
    IF ~IsFinite(a) THEN a
    ELSE IF a[1] = 0 THEN Zoo
    ELSE Norm(a[2], a[1] * a[3], a[3], -a[4])

\* the principal square root: of a negative number it is imaginary
VSqrt(a) ==
    IF ~IsFinite(a) THEN a
    ELSE IF a[3] # 1 \/ a[4] % 2 # 0 THEN Irr
    ELSE IF a[1] = 0 THEN a
    ELSE LET kn == SquarePart(Abs(a[1]), 2)
             kd == SquarePart(a[2], 2)
             rn == a[1] \div (kn * kn)
             rd == a[2] \div (kd * kd)
         \* sqrt(n/d) = (kn/(kd*rd)) * sqrt(rn*rd)
         IN  Norm(kn, kd * rd, rn * rd, a[4] \div 2)

RECURSIVE VPow(_, _)
VPow(a, k) ==
    IF k = 0 THEN IntV(1)
    ELSE IF k < 0 THEN VInv(VPow(a, -k))
    ELSE VMul(a, VPow(a, k - 1))

IsReal(a) == IsFinite(a) /\ a[3] > 0

(***************************************************************************)
(* SymPy expressions                                                       *)
(***************************************************************************)
Num(n, d) == [op |-> "num", n |-> n, d |-> d]

S(n) == Num(n, 1)

Sym(name) == [op |-> "sym", name |-> name]

Pi == [op |-> "pi"]

IsNum(e) == e.op = "num"

IsZero(e) == IsNum(e) /\ e.n = 0

IsOne(e) == IsNum(e) /\ e.n = e.d

NumOf(a) == Num(a[1], a[2])

\* SymPy evaluates as it builds: numbers are folded, 0 + e is e, 0 * e is 0,
\* 1 * e is e, e**1 is e, e**0 is 1, (e**a)**b is e**(a*b), sqrt(e)**2 is e
Add(l, r) ==
    IF IsZero(l) THEN r
    ELSE IF IsZero(r) THEN l
    ELSE IF IsNum(l) /\ IsNum(r) THEN NumOf(VAdd(Rat(l.n, l.d), Rat(r.n, r.d)))
    ELSE [op |-> "add", l |-> l, r |-> r]

Mul(l, r) ==
    IF IsZero(l) \/ IsZero(r) THEN S(0)
    ELSE IF IsOne(l) THEN r
    ELSE IF IsOne(r) THEN l
    ELSE IF IsNum(l) /\ IsNum(r) THEN NumOf(VMul(Rat(l.n, l.d), Rat(r.n, r.d)))
    ELSE [op |-> "mul", l |-> l, r |-> r]

Sqrt(a) == [op |-> "sqrt", a |-> a]

RECURSIVE Pow(_, _)
Pow(b, k) ==
    IF k = 0 THEN S(1)
    ELSE IF k = 1 THEN b
    ELSE IF IsNum(b) /\ ~IsZero(b) THEN NumOf(VPow(Rat(b.n, b.d), k))
    ELSE IF b.op = "pow" THEN Pow(b.b, b.k * k)
    ELSE IF b.op = "sqrt" /\ k % 2 = 0 THEN Pow(b.a, k \div 2)
    ELSE [op |-> "pow", b |-> b, k |-> k]

Atan2(y, x) == [op |-> "atan2", y |-> y, x |-> x]

Sub(l, r) == Add(l, Mul(S(-1), r))

Div(l, r) == Mul(l, Pow(r, -1))

\* diff(e, x): the partial derivative of e by the symbol x
RECURSIVE Diff(_, _)
Diff(e, w) ==
    CASE e.op = "num"   -> S(0)
      [] e.op = "pi"    -> S(0)
      [] e.op = "sym"   -> IF e = w THEN S(1) ELSE S(0)
      [] e.op = "add"   -> Add(Diff(e.l, w), Diff(e.r, w))
      [] e.op = "mul"   -> Add(Mul(Diff(e.l, w), e.r), Mul(e.l, Diff(e.r, w)))
      [] e.op = "pow"   -> Mul(Mul(S(e.k), Pow(e.b, e.k - 1)), Diff(e.b, w))
      [] e.op = "sqrt"  -> Mul(Mul(Num(1, 2), Pow(Sqrt(e.a), -1)), Diff(e.a, w))
      [] e.op = "atan2" ->
            LET q == Pow(Add(Pow(e.x, 2), Pow(e.y, 2)), -1)
            IN  Add(Mul(Mul(e.x, q), Diff(e.y, w)),
                    Mul(Mul(S(-1), Mul(e.y, q)), Diff(e.x, w)))

\* the value the substitution list of the point pt gives the symbol n:
\* first variable, second variable, their sigmas, rho
SymValue(pt, n) ==
    CASE n \in {"x", "L", "h"} -> IntV(pt.p1)
      [] n \in {"y", "T", "r"} -> IntV(pt.p2)
      [] n \in {"sigma_x", "sigma_L", "sigma_h"} -> Rat(pt.s[1][1], pt.s[1][2])
      [] n \in {"sigma_y", "sigma_T", "sigma_r"} -> Rat(pt.s[2][1], pt.s[2][2])
      [] n = "rho" -> Rat(pt.rho[1], pt.rho[2])

\* e.subs(...) at the point pt
RECURSIVE Eval(_, _)
Eval(e, pt) ==
    CASE e.op = "num"   -> Rat(e.n, e.d)
      [] e.op = "pi"    -> PiV
      [] e.op = "sym"   -> SymValue(pt, e.name)
      [] e.op = "add"   -> VAdd(Eval(e.l, pt), Eval(e.r, pt))
      [] e.op = "mul"   -> VMul(Eval(e.l, pt), Eval(e.r, pt))
      [] e.op = "pow"   -> VPow(Eval(e.b, pt), e.k)
      [] e.op = "sqrt"  -> VSqrt(Eval(e.a, pt))
      [] e.op = "atan2" ->
            LET yv == Eval(e.y, pt)
                xv == Eval(e.x, pt)
            IN  IF ~IsFinite(yv) THEN yv
                ELSE IF ~IsFinite(xv) THEN xv
                ELSE IF yv[1] = 0 /\ xv[1] > 0 /\ xv[3] > 0 THEN IntV(0)
                ELSE Irr

\* simplify(e): e rebuilt from its leaves, every node re-evaluated
RECURSIVE Simplify(_)
Simplify(e) ==
    CASE e.op = "add"   -> Add(Simplify(e.l), Simplify(e.r))
      [] e.op = "mul"   -> Mul(Simplify(e.l), Simplify(e.r))
      [] e.op = "pow"   -> Pow(Simplify(e.b), e.k)
      [] e.op = "sqrt"  -> Sqrt(Simplify(e.a))
      [] e.op = "atan2" -> Atan2(Simplify(e.y), Simplify(e.x))
      [] OTHER -> e

(***************************************************************************)
(* Matrices of expressions (sympy.Matrix): sequences of rows               *)
(***************************************************************************)
Rows(A) == Len(A)

Cols(A) == IF Len(A) = 0 THEN 0 ELSE Len(A[1])

RECURSIVE SumTo(_, _)
\* t[1] + ... + t[n], added left to right
SumTo(t, n) == IF n = 0 THEN S(0) ELSE Add(SumTo(t, n - 1), t[n])

\* A * B
MatMul(A, B) ==
    [a \in 1..Rows(A) |->
        [b \in 1..Cols(B) |->
            SumTo([k \in 1..Cols(A) |-> Mul(A[a][k], B[k][b])], Cols(A))]]

\* A.transpose()
Transpose(A) == [b \in 1..Cols(A) |-> [a \in 1..Rows(A) |-> A[a][b]]]

\* f.jacobian(v): G[a][b] = d f_a / d v_b
Jacobian(fs, v) == [a \in 1..Len(fs) |-> [b \in 1..Len(v) |-> Diff(fs[a], v[b])]]

\* simplify(A), entry by entry
SimplifyM(A) == [a \in 1..Rows(A) |-> [b \in 1..Cols(A) |-> Simplify(A[a][b])]]

EvalM(A, pt) == [a \in 1..Rows(A) |-> [b \in 1..Cols(A) |-> Eval(A[a][b], pt)]]

(***************************************************************************)
(* The notebook's symbols and expressions                                  *)
(***************************************************************************)
x == Sym("x")
y == Sym("y")
sig_x == Sym("sigma_x")
sig_y == Sym("sigma_y")
rho == Sym("rho")
L == Sym("L")
T == Sym("T")
sig_L == Sym("sigma_L")
sig_T == Sym("sigma_T")
h == Sym("h")
r == Sym("r")
sig_h == Sym("sigma_h")
sig_r == Sym("sigma_r")

z_1 == Add(x, y)
z_2 == Sub(x, y)
z_3 == Mul(x, y)
z_4 == Div(x, y)
g == Mul(Mul(S(4), Pow(Pi, 2)), Div(L, Pow(T, 2)))
Vol == Mul(Mul(Pi, Pow(r, 2)), h)
r_xy == Sqrt(Add(Pow(x, 2), Pow(y, 2)))
th == Atan2(y, x)

\* what the cells pass as f, with the two variables and their sigmas
Cells ==
    << [f |-> <<z_1>>,      v |-> <<x, y>>, s |-> <<sig_x, sig_y>>],
       [f |-> <<z_2>>,      v |-> <<x, y>>, s |-> <<sig_x, sig_y>>],
       [f |-> <<z_3>>,      v |-> <<x, y>>, s |-> <<sig_x, sig_y>>],
       [f |-> <<z_4>>,      v |-> <<x, y>>, s |-> <<sig_x, sig_y>>],
       [f |-> <<g>>,        v |-> <<L, T>>, s |-> <<sig_L, sig_T>>],
       [f |-> <<Vol>>,      v |-> <<h, r>>, s |-> <<sig_h, sig_r>>],
       [f |-> <<r_xy, th>>, v |-> <<x, y>>, s |-> <<sig_x, sig_y>>],
       [f |-> <<z_3, z_2>>, v |-> <<x, y>>, s |-> <<sig_x, sig_y>>] >>

\* the lists of variables a call may name: both, swapped, the first only
VarLists == { <<1, 2>>, <<2, 1>>, <<1>> }

\* the off-diagonal entries doubled: rho*sig_1*(2*sig_2)
C_OffDiagonalDoubled(s1, s2) ==
    << <<Pow(s1, 2), Mul(Mul(rho, s1), Mul(S(2), s2))>>,
       <<Mul(Mul(rho, s1), Mul(S(2), s2)), Pow(s2, 2)>> >>

\* C = [[sig_1**2, rho*sig_1*sig_2], [rho*sig_1*sig_2, sig_2**2]]
C(s1, s2) ==
    << <<Pow(s1, 2), Mul(Mul(rho, s1), s2)>>,
       <<Mul(Mul(rho, s1), s2), Pow(s2, 2)>> >>

\* the same with the Python number rho = 0: the products are the number 0
C0(s1, s2) == << <<Pow(s1, 2), S(0)>>, <<S(0), Pow(s2, 2)>> >>

\* the matrices a call may pass: the notebook's two, and matrices that are
\* not covariance matrices (asymmetric, indefinite, of the wrong size)
Matrices(c) ==
    { C(c.s[1], c.s[2]),
      C0(c.s[1], c.s[2]),
      << <<S(1), S(2)>>, <<S(0), S(1)>> >>,
      << <<S(1), S(-2)>>, <<S(-2), S(1)>> >>,
      << <<Pow(c.s[1], 2)>> >> }

None == [op |-> "none"]

\* a name with no binding (a lookup raises NameError)
Unbound == [op |-> "unbound"]

\* the built-in function sum, found through the namespace
BuiltinSum == [op |-> "builtin", name |-> "sum"]

\* a Python int, a Matrix object
PyInt(n) == [op |-> "int", v |-> n]
PyMatrix(A) == [op |-> "matrix", rows |-> A]

\* the names the three functions assign, as the notebook binds them before
\* the calls: x and sum are bound, the others are not
Namespace ==
    [n \in {"x", "sigma", "sum", "i", "j", "G"} |->
        CASE n = "x" -> x [] n = "sum" -> BuiltinSum [] OTHER -> Unbound]

\* the store as if the name were declared global
StoreLocal_Global(n, name, value) == [n EXCEPT ![name] = value]

\* a name assigned in a function body (sum = ..., for (x, sigma) in ...,
\* for i in ..., G = ...) is bound in the frame of the call: the namespace
\* keeps its bindings
StoreLocal(n, name, value) == n

NoVal == <<0, 0, 0, 0>>

\* the (variable, sigma) pairs error_prop is given for the variable list
SigmaOf(w) ==
    CASE w = x -> sig_x [] w = y -> sig_y [] w = L -> sig_L
      [] w = T -> sig_T [] w = h -> sig_h [] w = r -> sig_r

vars == [k \in 1..Len(v_old) |-> <<v_old[k], SigmaOf(v_old[k])>>]

Init ==
    /\ pc = "cell_error_prop"
    /\ \E c \in 1..Len(Cells) :
          /\ f_new = Cells[c].f
          /\ \E vl \in VarLists :
                v_old = [k \in 1..Len(vl) |-> Cells[c].v[vl[k]]]
          /\ V_old \in Matrices(Cells[c])
    /\ sum = S(0)
    /\ i = 0
    /\ j = 0
    /\ visited = <<>>
    /\ sig_z = None
    /\ sig_z_corr = None
    /\ U = <<>>
    /\ raised = {}
    /\ point = <<>>
    /\ val = <<>>
    /\ ns = Namespace
    /\ frame = [x |-> Unbound, sigma |-> Unbound]
    /\ OscNotOpen
    /\ CellsNotRun

(***************************************************************************)
(* error_prop(f, vars)                                                     *)
(***************************************************************************)
z == f_new[1]

ErrorPropCall ==
    /\ pc = "cell_error_prop"
    /\ pc' = "error_prop"
    /\ sum' = S(0)
    /\ i' = 1
    /\ visited' = <<>>
    /\ ns' = StoreLocal(ns, "sum", S(0))
    /\ UNCHANGED <<f_new, v_old, V_old, j, sig_z, sig_z_corr, U, raised, point, val, frame>>
    /\ UNCHANGED vars_osc
    /\ UNCHANGED vars_cells

\* the summand with sigma left unsquared
ErrorPropTerm_SigmaNotSquared(e, w, sigma) == Mul(Pow(Diff(e, w), 2), sigma)

\* the summand of the pair (w, sigma)
ErrorPropTerm(e, w, sigma) == Mul(Pow(Diff(e, w), 2), Pow(sigma, 2))

ErrorPropLoop ==
    /\ pc = "error_prop"
    /\ i <= Len(vars)
    /\ sum' = Add(sum, ErrorPropTerm(z, vars[i][1], vars[i][2]))
    /\ visited' = Append(visited, <<i>>)
    /\ i' = i + 1
    /\ frame' = [x |-> vars[i][1], sigma |-> vars[i][2]]
    /\ ns' = StoreLocal(StoreLocal(StoreLocal(ns, "x", vars[i][1]),
                                   "sigma", vars[i][2]), "sum", sum')
    /\ UNCHANGED <<pc, f_new, v_old, V_old, j, sig_z, sig_z_corr, U, raised, point, val>>
    /\ UNCHANGED vars_osc
    /\ UNCHANGED vars_cells

ErrorPropReturn ==
    /\ pc = "error_prop"
    /\ i > Len(vars)
    /\ sig_z' = Sqrt(Simplify(sum))
    /\ pc' = "cell_error_prop_corr"
    /\ UNCHANGED <<f_new, v_old, V_old, sum, i, j, visited, sig_z_corr, U, raised, point, val,
                   ns, frame>>
    /\ UNCHANGED vars_osc
    /\ UNCHANGED vars_cells

(***************************************************************************)
(* error_prop_corr(f, x, V)                                                *)
(***************************************************************************)
ErrorPropCorrCall ==
    /\ pc = "cell_error_prop_corr"
    /\ pc' = "error_prop_corr"
    /\ sum' = S(0)
    /\ i' = 1
    /\ j' = 1
    /\ visited' = <<>>
    /\ ns' = StoreLocal(ns, "sum", S(0))
    /\ UNCHANGED <<f_new, v_old, V_old, sig_z, sig_z_corr, U, raised, point, val, frame>>
    /\ UNCHANGED vars_osc
    /\ UNCHANGED vars_cells

\* the summand with the first derivative taken twice
ErrorPropCorrTerm_SameIndex(e, xs, W, a, b) ==
    Mul(Mul(Diff(e, xs[a]), Diff(e, xs[a])), W[a][b])

\* the summand with the first derivative taken by the first variable listed
ErrorPropCorrTerm_FirstListed(e, xs, W, a, b) ==
    Mul(Mul(Diff(e, xs[1]), Diff(e, xs[b])), W[a][b])

\* the summand of the index pair (a, b)
ErrorPropCorrTerm(e, xs, W, a, b) == Mul(Mul(Diff(e, xs[a]), Diff(e, xs[b])), W[a][b])

\* V[i][j] of a Python list of lists raises IndexError past the end
InRange(W, a, b) == a <= Len(W) /\ b <= Len(W[a])

ErrorPropCorrLoop ==
    /\ pc = "error_prop_corr"
    /\ i <= Len(v_old)
    /\ IF InRange(V_old, i, j)
       THEN /\ sum' = Add(sum, ErrorPropCorrTerm(z, v_old, V_old, i, j))
            /\ visited' = Append(visited, <<i, j>>)
            /\ IF j < Len(v_old)
               THEN i' = i /\ j' = j + 1
               ELSE i' = i + 1 /\ j' = 1
            /\ ns' = StoreLocal(StoreLocal(StoreLocal(ns, "i", PyInt(i - 1)),
                                           "j", PyInt(j - 1)), "sum", sum')
            /\ UNCHANGED <<pc, raised>>
       ELSE /\ raised' = raised \cup {"error_prop_corr"}
            /\ pc' = "cell_congruence_trafo"
            /\ ns' = StoreLocal(StoreLocal(ns, "i", PyInt(i - 1)),
                                "j", PyInt(j - 1))
            /\ UNCHANGED <<sum, visited, i, j>>
    /\ UNCHANGED <<f_new, v_old, V_old, sig_z, sig_z_corr, U, point, val, frame>>
    /\ UNCHANGED vars_osc
    /\ UNCHANGED vars_cells

ErrorPropCorrReturn ==
    /\ pc = "error_prop_corr"
    /\ i > Len(v_old)
    /\ sig_z_corr' = Sqrt(Simplify(sum))
    /\ pc' = "cell_congruence_trafo"
    /\ UNCHANGED <<f_new, v_old, V_old, sum, i, j, visited, sig_z, U, raised, point, val,
                   ns, frame>>
    /\ UNCHANGED vars_osc
    /\ UNCHANGED vars_cells

(***************************************************************************)
(* congruence_trafo(f, v, V)                                               *)
(***************************************************************************)
\* G * V is defined when V has as many rows as G has columns, and
\* (G * V) * G.transpose() when V has as many columns as G has columns
ShapesFit(fs, v, W) == Rows(W) = Len(v) /\ Cols(W) = Len(v)

\* G * V.transpose() * G.transpose()
congruence_trafo_VTransposed(fs, v, W) ==
    LET G == Jacobian(fs, v)
    IN  SimplifyM(MatMul(MatMul(G, Transpose(W)), Transpose(G)))

\* G * V, the product with G.transpose() left out
congruence_trafo_NoRight(fs, v, W) ==
    LET G == Jacobian(fs, v)
    IN  SimplifyM(MatMul(G, W))

congruence_trafo(fs, v, W) ==
    LET G == Jacobian(fs, v)
    IN  SimplifyM(MatMul(MatMul(G, W), Transpose(G)))

CongruenceTrafo ==
    /\ pc = "cell_congruence_trafo"
    /\ IF ShapesFit(f_new, v_old, V_old)
       THEN U' = congruence_trafo(f_new, v_old, V_old) /\ UNCHANGED raised
       ELSE raised' = raised \cup {"congruence_trafo"} /\ UNCHANGED U
    /\ pc' = "cell_subs"
    /\ ns' = StoreLocal(ns, "G", PyMatrix(Jacobian(f_new, v_old)))
    /\ UNCHANGED <<f_new, v_old, V_old, sum, i, j, visited, sig_z, sig_z_corr, point, val, frame>>
    /\ UNCHANGED vars_osc
    /\ UNCHANGED vars_cells

(***************************************************************************)
(* The subs cells: expr.subs([(h, 3), (r, 2), (sig_h, 0.05), ...])         *)
(***************************************************************************)
MaxCoord == 4

Coords == (-MaxCoord)..MaxCoord

\* (sigma_1, sigma_2), each <<numerator, denominator>>: 0.05 is 1/20
Sigmas == { <<<<1, 20>>, <<1, 20>>>>, <<<<2, 1>>, <<1, 1>>>> }

Rhos == { <<-1, 1>>, <<0, 1>>, <<1, 1>> }

\* the substitution names rho only when the expressions hold the symbol
HasRho(W) == \E a \in 1..Len(W) : \E b \in 1..Len(W[a]) :
                W[a][b].op = "mul" /\ W[a][b].l.op = "mul" /\ W[a][b].l.l = rho

Points(W) ==
    [p1 : Coords, p2 : Coords, s : Sigmas,
     rho : IF HasRho(W) THEN Rhos ELSE { <<0, 1>> }]

\* L, T, h, r are declared positive = True; x and y carry no assumption
DeclaredPositive(e) == e = g \/ e = Vol

InDomain(pt) == DeclaredPositive(z) => pt.p1 > 0 /\ pt.p2 > 0

Subs ==
    /\ pc = "cell_subs"
    /\ \E pt \in Points(V_old) :
          /\ InDomain(pt)
          /\ point' = pt
          /\ val' = [ sig_z      |-> IF sig_z = None THEN NoVal
                                     ELSE Eval(sig_z, pt),
                      sig_z_corr |-> IF sig_z_corr = None THEN NoVal
                                     ELSE Eval(sig_z_corr, pt),
                      z          |-> Eval(z, pt),
                      U          |-> EvalM(U, pt) ]
    /\ pc' = "done"
    /\ UNCHANGED <<f_new, v_old, V_old, sum, i, j, visited, sig_z, sig_z_corr, U, raised,
                   ns, frame>>
    /\ UNCHANGED vars_osc
    /\ UNCHANGED vars_cells

Next ==
    \/ ErrorPropCall
    \/ ErrorPropLoop
    \/ ErrorPropReturn
    \/ ErrorPropCorrCall
    \/ ErrorPropCorrLoop
    \/ ErrorPropCorrReturn
    \/ CongruenceTrafo
    \/ Subs

Spec == Init /\ [][Next]_vars_all

(***************************************************************************)
(* The oscillator notebook: NumPy floats                                   *)
(*                                                                         *)
(* A float is <<n, d>>: the rational n/d with d > 0 and gcd(n, d) = 1, or  *)
(* one of <<1, 0>> = inf, <<-1, 0>> = -inf, <<0, 0>> = nan.  A result      *)
(* whose magnitude exceeds FloatMax overflows to an infinity, as a float64 *)
(* result beyond 1.8e308 does, and a non-zero result whose magnitude is     *)
(* below 1/FloatMax underflows to 0, as a float64 result below 4.9e-324    *)
(* does; rounding and signed zeros are left out.                           *)
(***************************************************************************)
FloatMax == 1000000

PInf == <<1, 0>>

NInf == <<-1, 0>>

NaN == <<0, 0>>

IsNaN(a) == a = NaN

IsInf(a) == a[2] = 0 /\ a[1] # 0

\* the float of the rational n/d, d # 0
Flt(n, d) ==
    LET cd == GCD(Abs(n), Abs(d))
        nn == (Sign(d) * n) \div cd
        dd == Abs(d) \div cd
    IN  IF Abs(nn) \div dd > FloatMax
           \/ (Abs(nn) \div dd = FloatMax /\ Abs(nn) % dd # 0)
        THEN <<Sign(nn), 0>>
        ELSE IF nn # 0 /\ (dd \div Abs(nn) > FloatMax
                            \/ (dd \div Abs(nn) = FloatMax /\ dd % Abs(nn) # 0))
        THEN <<0, 1>>
        ELSE <<nn, dd>>

FMul(a, b) ==
    IF IsNaN(a) \/ IsNaN(b) THEN NaN
    ELSE IF IsInf(a) \/ IsInf(b)
         THEN IF a[1] = 0 \/ b[1] = 0 THEN NaN
              ELSE <<Sign(a[1]) * Sign(b[1]), 0>>
    ELSE Flt(a[1] * b[1], a[2] * b[2])

FSub(a, b) ==
    IF IsNaN(a) \/ IsNaN(b) THEN NaN
    ELSE IF IsInf(a) /\ IsInf(b) THEN IF a = b THEN NaN ELSE a
    ELSE IF IsInf(a) THEN a
    ELSE IF IsInf(b) THEN <<-b[1], 0>>
    ELSE Flt(a[1] * b[2] - b[1] * a[2], a[2] * b[2])

FAdd(a, b) ==
    IF IsNaN(a) \/ IsNaN(b) THEN NaN
    ELSE IF IsInf(a) /\ IsInf(b) THEN IF a = b THEN a ELSE NaN
    ELSE IF IsInf(a) THEN a
    ELSE IF IsInf(b) THEN b
    ELSE LET cd == GCD(a[2], b[2])
         IN  Flt(a[1] * (b[2] \div cd) + b[1] * (a[2] \div cd),
                 a[2] * (b[2] \div cd))

\* a / b of np.divide
FDiv(a, b) ==
    IF IsNaN(a) \/ IsNaN(b) THEN NaN
    ELSE IF IsInf(a) THEN IF IsInf(b) THEN NaN
                          ELSE <<a[1] * (IF b[1] < 0 THEN -1 ELSE 1), 0>>
    ELSE IF IsInf(b) THEN <<0, 1>>
    ELSE IF b[1] = 0 THEN IF a[1] = 0 THEN NaN ELSE <<Sign(a[1]), 0>>
    ELSE Flt(a[1] * b[2], a[2] * b[1])

\* an angle arctan(t) + k*pi, arctan the principal value in [-pi/2, pi/2];
\* t = nan: the angle is nan
Arctan(t) == [t |-> t, k |-> 0]

\* no angle counts as positive: nothing is shifted
PhiPositive_Never(phi) == FALSE

\* phi > 0 (a comparison with nan is False)
PhiPositive(phi) ==
    /\ ~IsNaN(phi.t)
    /\ phi.k > 0 \/ (phi.k = 0 /\ phi.t[1] > 0)

\* phi - np.pi
MinusPi(phi) == IF IsNaN(phi.t) THEN phi ELSE [phi EXCEPT !.k = @ - 1]

(***************************************************************************)
(* phase(omega, omega_0, beta)                                             *)
(***************************************************************************)
\* an element of a float64 array
NpFloat(a) == [op |-> "float", v |-> a]

\* only a float is wrapped; an int gives no array element
AsArray_FloatOnly(omega) ==
    IF omega.type = "float" THEN <<NpFloat(omega.v)>>
    ELSE IF omega.type = "int" THEN <<>>
    ELSE omega.a

\* if type(omega) == float or type(omega) == int: omega = np.array([omega])
AsArray(omega) ==
    IF omega.type = "float" \/ omega.type = "int" THEN <<NpFloat(omega.v)>>
    ELSE omega.a

\* omega_0**2 of a Python number raises OverflowError instead of giving inf
PowRaises(omega_0) == IsInf(FMul(omega_0, omega_0))

\* one element of the returned array
PhaseElement(omega, omega_0, beta) ==
    LET num == FMul(FMul(Flt(-2, 1), beta), omega)
        den == FSub(FMul(omega_0, omega_0), FMul(omega, omega))
        tanphi == IF den # Flt(0, 1) THEN FDiv(num, den) ELSE PInf
        phi == Arctan(tanphi)
    IN  IF PhiPositive(phi) THEN MinusPi(phi) ELSE phi

phase(omega, omega_0, beta) ==
    [k \in 1..Len(AsArray(omega)) |->
        PhaseElement(AsArray(omega)[k].v, omega_0, beta)]

\* a magnitude whose square and whose product with itself overflow
Big == 2000

\* the arguments tried: Python floats and ints, and float arrays
OmegaArgs ==
    { [type |-> "float", v |-> Flt(n, 1)] : n \in {2} }
    \cup { [type |-> "int", v |-> Flt(n, 1)] : n \in {4} }
    \cup { [type |-> "ndarray",
            a |-> <<NpFloat(Flt(-Big, 1)), NpFloat(Flt(2, 1)), NpFloat(Flt(33, 8))>>] }

Omega0s == { Flt(2, 1), Flt(Big, 1) }

Betas == { Flt(0, 1), Flt(3, 10), Flt(Big, 1) }

\* a cell calls phase
PhaseCall ==
    /\ opc # "closed"
    /\ \E omega \in OmegaArgs : \E omega_0 \in Omega0s : \E beta \in Betas :
          ph' = [ omega   |-> omega,
                  omega_0 |-> omega_0,
                  beta    |-> beta,
                  raised  |-> PowRaises(omega_0),
                  phi     |-> IF PowRaises(omega_0) THEN <<>>
                              ELSE phase(omega, omega_0, beta) ]
    /\ UNCHANGED <<opc, rng, data, runs, files, amp>>
    /\ UNCHANGED vars_prop
    /\ UNCHANGED vars_cells

(***************************************************************************)
(* The generate-data cell                                                  *)
(***************************************************************************)
\* The random source is a stream: a state is [s, n], the n-th position of
\* the stream s.  The variable rng keeps a state as one of RngModulus
\* classes.
RngModulus == 3

\* the state of class c
Stream(c) == [s |-> c, n |-> 0]

\* the class of the state st
Class(st) == (st.s + st.n) % RngModulus

\* the source left as it was
seed_NotApplied(st, s) == st

\* np.random.seed(s): the start of the stream of the seed, whatever st was
seed(st, s) == [s |-> s % RngModulus, n |-> 0]

\* the state after n draws
RngAfter(st, n) == [st EXCEPT !.n = @ + n]

\* the state after one draw
RngNext(st) == RngAfter(st, 1)

\* the variates drawn, the state left where it was
normal_StateNotAdvanced(st, scale, size) ==
    [ draws |-> [k \in 1..size |->
                    [op |-> "normal", state |-> RngAfter(st, k), scale |-> scale]],
      state |-> st ]

\* np.random.normal(0, scale, size) drawn from state st: the variates, each
\* fixed by the state it is drawn in, and the state left behind
normal(st, scale, size) ==
    [ draws |-> [k \in 1..size |->
                    [op |-> "normal", state |-> RngAfter(st, k), scale |-> scale]],
      state |-> RngAfter(st, size) ]

\* np.linspace(start, stop, num)
linspace(start, stop, num) ==
    [k \in 1..num |->
        NpFloat(Flt(start[1] * stop[2] * (num - k) + stop[1] * start[2] * (k - 1),
                    start[2] * stop[2] * (num - 1)))]

\* x(t, x0, omega_0, beta), element by element: the closed form is not
\* evaluated
x_osc(t, x0, omega_0, beta) ==
    [k \in 1..Len(t) |->
        [op |-> "x", arg |-> t[k], par |-> <<x0, omega_0, beta>>]]

\* (omega**2 - omega_0**2)**2 + (2. * beta * omega)**2
ARadicand(omega, omega_0, beta) ==
    FAdd(FMul(FSub(FMul(omega, omega), FMul(omega_0, omega_0)),
              FSub(FMul(omega, omega), FMul(omega_0, omega_0))),
         FMul(FMul(FMul(Flt(2, 1), beta), omega),
              FMul(FMul(Flt(2, 1), beta), omega)))

\* A(omega, omega_0, beta, K), element by element: K / np.sqrt(radicand),
\* the square root not evaluated
A_osc(omega, omega_0, beta, K) ==
    [k \in 1..Len(omega) |->
        [op |-> "A", arg |-> omega[k], par |-> <<omega_0, beta, K>>,
         radicand |-> ARadicand(omega[k].v, omega_0, beta)]]

\* a + b of two arrays
NpAdd(a, b) == [k \in 1..Len(a) |-> [op |-> "+", l |-> a[k], r |-> b[k]]]

npoints_t == 50

npoints_omega == 25

MaxRuns == 2

\* the cell; t_data is held as the multiple of pi. runs keeps, for each
\* execution, the state the random source was in and the names bound
GenerateData ==
    /\ opc # "closed"
    /\ Len(runs) < MaxRuns
    /\ LET omega_0 == Flt(4, 1)
           beta == Flt(3, 10)
           x0 == Flt(1, 10)
           K == Flt(2, 10)
           sigma_x == FMul(Flt(5, 100), x0)
           sigma_A == FDiv(sigma_x, Flt(2, 1))
           sigma_ph == Flt(1, 10)
           t_data == linspace(Flt(0, 1),
                              FDiv(FMul(Flt(56, 10), Flt(2, 1)), omega_0),
                              npoints_t)
           x_smooth == x_osc(t_data, x0, omega_0, beta)
           n_x == normal(seed(Stream(rng), 1000), sigma_x, npoints_t)
           omega_data == linspace(Flt(3, 1), Flt(6, 1), npoints_omega)
           A_smooth == A_osc(omega_data, omega_0, beta, K)
           n_A == normal(n_x.state, sigma_A, npoints_omega)
           ph_smooth == phase([type |-> "ndarray", a |-> omega_data],
                              omega_0, beta)
           n_ph == normal(n_A.state, sigma_ph, npoints_omega)
           bound == [ sigma_x    |-> sigma_x,
                      sigma_A    |-> sigma_A,
                      sigma_ph   |-> sigma_ph,
                      t_data     |-> t_data,
                      x_data     |-> NpAdd(x_smooth, n_x.draws),
                      omega_data |-> omega_data,
                      A_data     |-> NpAdd(A_smooth, n_A.draws),
                      ph_smooth  |-> ph_smooth,
                      ph_data    |-> NpAdd(ph_smooth, n_ph.draws) ]
       IN  /\ data' = bound
           /\ runs' = Append(runs, [before |-> rng, bound |-> bound])
           /\ rng' = Class(n_ph.state)
    /\ opc' = "generated"
    /\ UNCHANGED <<files, ph, amp>>
    /\ UNCHANGED vars_prop
    /\ UNCHANGED vars_cells

\* another cell of the kernel draws a random number
DrawElsewhere ==
    /\ opc # "closed"
    /\ rng' = Class(RngNext(Stream(rng)))
    /\ UNCHANGED <<opc, data, runs, files, ph, amp>>
    /\ UNCHANGED vars_prop
    /\ UNCHANGED vars_cells

(***************************************************************************)
(* The write-text-files cell                                               *)
(***************************************************************************)
\* np.full(n, v)
full(n, v) == [k \in 1..n |-> NpFloat(v)]

\* np.vstack(arrays): one row per array
vstack(arrays) == arrays

\* the array left as stacked
NpT_Omitted(X) == X

\* X.T
NpT(X) == [c \in 1..Len(X[1]) |-> [a \in 1..Len(X) |-> X[a][c]]]

\* np.savetxt(fname, X, delimiter=',', header=header): the header lines
\* (one per line of the header text, each after the comment mark '# '),
\* then one line per row of X, its entries in the format '%.18e'
savetxt(X, header) ==
    [ header |-> [k \in 1..Len(header) |-> <<"# ", header[k]>>],
      rows   |-> [a \in 1..Len(X) |->
                     [c \in 1..Len(X[a]) |-> [fmt |-> "%.18e", v |-> X[a][c]]]] ]

\* the header texts, as their lines
HeaderFree ==
    <<"first column: time (a.u.), second column: position of oscillator (a.u.)">>

HeaderDriven ==
    <<"first column: driving frequency (a.u.), second column: amplitude (a.u.), third column: phase shift (rad)">>

WriteFiles ==
    /\ opc \in {"generated", "written"}
    /\ LET sig_x_arr == full(npoints_t, data.sigma_x)
           data1 == NpT(vstack(<<data.t_data, data.x_data, sig_x_arr>>))
           sig_A == full(npoints_omega, data.sigma_A)
           sig_ph == full(npoints_omega, data.sigma_ph)
           data2 == NpT(vstack(<<data.omega_data, data.A_data, sig_A,
                                 data.ph_data, sig_ph>>))
       IN  files' = [ damped_free_oscillator |-> savetxt(data1, HeaderFree),
                      driven_oscillator      |-> savetxt(data2, HeaderDriven) ]
    /\ opc' = "written"
    /\ UNCHANGED <<rng, data, runs, ph, amp>>
    /\ UNCHANGED vars_prop
    /\ UNCHANGED vars_cells

(***************************************************************************)
(* The oscillator notebook                                                 *)
(***************************************************************************)
\* the error-propagation notebook is not open
PropNotOpen ==
    /\ pc = "closed"
    /\ f_new = <<>>
    /\ v_old = <<>>
    /\ V_old = <<>>
    /\ sum = S(0)
    /\ i = 0
    /\ j = 0
    /\ visited = <<>>
    /\ sig_z = None
    /\ sig_z_corr = None
    /\ U = <<>>
    /\ raised = {}
    /\ point = <<>>
    /\ val = <<>>
    /\ ns = Namespace
    /\ frame = [x |-> Unbound, sigma |-> Unbound]

\* a fresh kernel: the random source is in any of its states
InitOsc ==
    /\ PropNotOpen
    /\ CellsNotRun
    /\ opc = "open"
    /\ rng \in 0..(RngModulus - 1)
    /\ data = <<>>
    /\ runs = <<>>
    /\ files = <<>>
    /\ ph = <<>>
    /\ amp = <<>>

NextOsc ==
    \/ PhaseCall
    \/ DrawElsewhere
    \/ GenerateData
    \/ WriteFiles

SpecOsc == InitOsc /\ [][NextOsc]_vars_all

(***************************************************************************)
(* The calls as functions of their arguments                               *)
(***************************************************************************)
\* the index pair (i, j) of the k-th pass of the double loop over n
PairAt(k, n) == <<((k - 1) \div n) + 1, ((k - 1) % n) + 1>>

RECURSIVE PropSum(_, _, _)
\* sum after the first k passes of the loop of error_prop
PropSum(e, vs, k) ==
    IF k = 0 THEN S(0)
    ELSE Add(PropSum(e, vs, k - 1), ErrorPropTerm(e, vs[k][1], vs[k][2]))

\* return sqrt(simplify(sum)), sum being the object the loop left
error_prop(e, vs) ==
    CHOOSE res \in { Sqrt(Simplify(t)) : t \in {PropSum(e, vs, Len(vs))} } : TRUE

RECURSIVE CorrSum(_, _, _, _)
\* sum after the first k passes of the double loop of error_prop_corr
CorrSum(e, xs, W, k) ==
    IF k = 0 THEN S(0)
    ELSE Add(CorrSum(e, xs, W, k - 1),
             ErrorPropCorrTerm(e, xs, W, PairAt(k, Len(xs))[1],
                               PairAt(k, Len(xs))[2]))

IndexError == [op |-> "IndexError"]

error_prop_corr(e, xs, W) ==
    IF \A a \in 1..Len(xs) : \A b \in 1..Len(xs) : InRange(W, a, b)
    THEN CHOOSE res \in { Sqrt(Simplify(t)) :
                              t \in {CorrSum(e, xs, W, Len(xs) * Len(xs))} } : TRUE
    ELSE IndexError

(***************************************************************************)
(* The notebook cell by cell: the cells that call the three functions, in  *)
(* the order of the notebook.  The kernel keeps the global names a later   *)
(* cell reads and an earlier or later cell rebinds: rho, C, r and th.      *)
(***************************************************************************)
CellNames == <<"i", "ii", "iii", "case1", "case2", "polar", "rho0">>

\* the covariance matrix built from the symbol rho whatever rho is bound to
Covariance_SymbolRho(rh, s1, s2) ==
    << <<Pow(s1, 2), Mul(Mul(rho, s1), s2)>>,
       <<Mul(Mul(rho, s1), s2), Pow(s2, 2)>> >>

\* [[s1**2, rho * s1 * s2], [rho * s1 * s2, s2**2]], rh the object bound to
\* the name rho when the list is built
Covariance(rh, s1, s2) ==
    << <<Pow(s1, 2), Mul(Mul(rh, s1), s2)>>,
       <<Mul(Mul(rh, s1), s2), Pow(s2, 2)>> >>

\* the cell c executed in the kernel k: the kernel it leaves and its output.
\* Of cell (ii) the results for z_3 and z_4 are kept (z_5 has a symbolic
\* exponent); rho = 0 binds the number 0, whose products are the number 0
RunCell(c, k) ==
    CASE c = "i" ->
           LET Cxy == Covariance(rho, sig_x, sig_y)
           IN  [ kernel |-> [k EXCEPT !.rho = rho, !.C = Cxy],
                 out    |-> << error_prop_corr(z_1, <<x, y>>, Cxy),
                               error_prop_corr(z_2, <<x, y>>, Cxy) >> ]
      [] c = "ii" ->
           [ kernel |-> k,
             out    |-> << error_prop_corr(z_3, <<x, y>>, k.C),
                           error_prop_corr(z_4, <<x, y>>, k.C) >> ]
      [] c = "iii" ->
           LET Clt == Covariance(k.rho, sig_L, sig_T)
           IN  [ kernel |-> [k EXCEPT !.C = Clt],
                 out    |-> << error_prop_corr(g, <<L, T>>, Clt) >> ]
      [] c = "case1" ->
           [ kernel |-> [k EXCEPT !.r = r],
             out    |-> << Vol, error_prop(Vol, << <<h, sig_h>>, <<r, sig_r>> >>) >> ]
      [] c = "case2" ->
           LET Chr == Covariance(k.rho, sig_h, sig_r)
           IN  [ kernel |-> [k EXCEPT !.r = r, !.C = Chr],
                 out    |-> << Vol, error_prop_corr(Vol, <<h, r>>, Chr) >> ]
      [] c = "polar" ->
           [ kernel |-> [k EXCEPT !.rho = rho, !.r = r_xy, !.th = th],
             out    |-> << congruence_trafo(<<r_xy, th>>, <<x, y>>,
                                            Covariance(rho, sig_x, sig_y)) >> ]
      [] c = "rho0" ->
           [ kernel |-> [k EXCEPT !.rho = S(0)],
             out    |-> << congruence_trafo(<<k.r, k.th>>, <<x, y>>,
                                            Covariance(S(0), sig_x, sig_y)) >> ]

MaxReruns == 3

\* the next cell of the top-to-bottom run
RunNext ==
    /\ Len(shown) < Len(CellNames)
    /\ \E res \in { RunCell(CellNames[Len(shown) + 1], kernel) } :
          /\ kernel' = res.kernel
          /\ shown' = Append(shown, res.out)
    /\ UNCHANGED reruns
    /\ UNCHANGED vars_prop
    /\ UNCHANGED vars_osc

\* after the run, one cell is executed again
Rerun ==
    /\ Len(shown) = Len(CellNames)
    /\ Len(reruns) < MaxReruns
    /\ \E n \in 1..Len(CellNames) :
          \E res \in { RunCell(CellNames[n], kernel) } :
              /\ kernel' = res.kernel
              /\ reruns' = Append(reruns, [cell |-> n, out |-> res.out])
    /\ UNCHANGED shown
    /\ UNCHANGED vars_prop
    /\ UNCHANGED vars_osc

\* a fresh kernel: none of the names is bound
InitCells ==
    /\ PropNotOpen
    /\ OscNotOpen
    /\ kernel = [rho |-> Unbound, C |-> Unbound, r |-> Unbound, th |-> Unbound]
    /\ shown = <<>>
    /\ reruns = <<>>

NextCells == RunNext \/ Rerun

SpecCells == InitCells /\ [][NextCells]_vars_all


(***************************************************************************)
(* A(omega, omega_0, beta, K) on its own: the arguments are drawn, then    *)
(* the function is applied to a one-element array omega                    *)
(***************************************************************************)
\* a magnitude whose square underflows
Tiny == 2000

\* the frequencies tried: the grid of the generate-data cell, 0, a tiny and
\* a big one
AmpOmegas ==
    { linspace(Flt(3, 1), Flt(6, 1), npoints_omega)[k].v : k \in 1..npoints_omega }
    \cup { Flt(0, 1), Flt(1, Tiny), Flt(Big, 1) }

AmpOmega0s == { Flt(1, Tiny), Flt(4, 1), Flt(Big, 1) }

AmpBetas == { Flt(0, 1), Flt(3, 10) }

InitAmp ==
    /\ PropNotOpen
    /\ CellsNotRun
    /\ opc = "closed"
    /\ rng = 0
    /\ data = <<>>
    /\ runs = <<>>
    /\ files = <<>>
    /\ ph = <<>>
    /\ \E omega \in AmpOmegas : \E omega_0 \in AmpOmega0s : \E beta \in AmpBetas :
          amp = [ omega |-> omega, omega_0 |-> omega_0, beta |-> beta,
                  K |-> Flt(2, 10), called |-> FALSE, raised |-> FALSE,
                  A |-> <<>> ]

\* omega_0**2 of a Python float raises OverflowError when it overflows
ACall ==
    /\ amp # <<>>
    /\ ~amp.called
    /\ amp' = [amp EXCEPT
                  !.called = TRUE,
                  !.raised = PowRaises(amp.omega_0),
                  !.A = IF PowRaises(amp.omega_0) THEN <<>>
                        ELSE A_osc(<<NpFloat(amp.omega)>>, amp.omega_0,
                                   amp.beta, amp.K)]
    /\ UNCHANGED <<opc, rng, data, runs, files, ph>>
    /\ UNCHANGED vars_prop
    /\ UNCHANGED vars_cells

NextAmp == ACall

SpecAmp == InitAmp /\ [][NextAmp]_vars_all

(***************************************************************************)
(* Helpers of the properties                                               *)
(***************************************************************************)
RECURSIVE VSum(_, _)
\* t[1] + ... + t[n] of values
VSum(t, n) == IF n = 0 THEN IntV(0) ELSE VAdd(VSum(t, n - 1), t[n])

VSquare(a) == VMul(a, a)

Returned(e) == e # None

\* sum over the listed pairs of (df/dx_k)^2 * sigma_k^2 at the point pt
RadicandUncorr(e, vs, pt) ==
    VSum([k \in 1..Len(vs) |->
            VMul(VSquare(Eval(Diff(e, vs[k][1]), pt)),
                 VSquare(Eval(vs[k][2], pt)))], Len(vs))

\* sum over all index pairs (a, b) of (df/dx_a)(df/dx_b) W[a][b] at pt
RadicandCorr(e, xs, W, pt) ==
    VSum([a \in 1..Len(xs) |->
            VSum([b \in 1..Len(xs) |->
                    VMul(VMul(Eval(Diff(e, xs[a]), pt),
                              Eval(Diff(e, xs[b]), pt)),
                         Eval(W[a][b], pt))], Len(xs))], Len(xs))

\* C1: when error_prop has returned, its value at every substituted point is
\* the square root of the sum, over exactly the listed (variable, sigma)
\* pairs, of (df/dx)^2 * sigma^2; one summand was added per listed pair, so
\* a variable of f that is not listed adds nothing.
C1_ErrorPropFormula ==
    /\ (pc = "cell_error_prop_corr" =>
            visited = [k \in 1..Len(vars) |-> <<k>>])
    /\ (pc = "done" /\ Returned(sig_z) =>
            val.sig_z = VSqrt(RadicandUncorr(z, vars, point)))

\* error_prop(x*y, [(x, sigma_x)]) evaluated: y is not listed, dz/dy is not
\* zero at the point, and the result is the non-zero |y|*sigma_x
C1_Witness ==
    /\ pc = "done"
    /\ z = z_3
    /\ v_old = <<x>>
    /\ Eval(Diff(z, y), point) # IntV(0)
    /\ IsReal(val.sig_z)
    /\ val.sig_z = Rat(Abs(point.p2) * point.s[1][1], point.s[1][2])

\* the index pairs (a, b), a and b in 1..n, each once
PairsOnce(vis, n) ==
    /\ Len(vis) = n * n
    /\ \A a \in 1..n : \A b \in 1..n :
          Cardinality({k \in 1..Len(vis) : vis[k] = <<a, b>>}) = 1

\* C2: when error_prop_corr has returned for a list of n variables, every
\* index pair (i, j) of 0..n-1 was visited exactly once and the value at
\* every substituted point is the square root of the sum over all the
\* pairs of (df/dx_i)(df/dx_j) V[i][j].
C2_ErrorPropCorrFormula ==
    /\ (Returned(sig_z_corr) => PairsOnce(visited, Len(v_old)))
    /\ (pc = "done" /\ Returned(sig_z_corr) =>
            val.sig_z_corr = VSqrt(RadicandCorr(z, v_old, V_old, point)))

\* error_prop_corr(x/y, [x, y], C) evaluated with rho # 0 at a point where
\* both partial derivatives are non-zero: the cross terms contribute
C2_Witness ==
    /\ pc = "done"
    /\ z = z_4
    /\ v_old = <<x, y>>
    /\ V_old = C(sig_x, sig_y)
    /\ point.rho # <<0, 1>>
    /\ point.p1 # 0 /\ point.p2 # 0
    /\ IsReal(val.sig_z_corr)
    /\ val.sig_z_corr # val.sig_z

\* W is n-by-n for the n listed variables
IsSquareFor(W, n) == Len(W) = n /\ \A a \in 1..n : Len(W[a]) = n

\* at the point pt, W is the diagonal matrix of the squared sigmas of vs
DiagonalOfSigmas(W, vs, pt) ==
    /\ IsSquareFor(W, Len(vs))
    /\ \A a \in 1..Len(vs) : \A b \in 1..Len(vs) :
          Eval(W[a][b], pt) = IF a = b THEN VSquare(Eval(vs[a][2], pt))
                                       ELSE IntV(0)

\* C3: at a point where V is diagonal with V[i][i] = sigma_i^2 (rho = 0 in the
\* notebook's C), error_prop_corr(f, x, V) and error_prop(f, vars) on the same
\* variables have the same value.
C3_DiagonalReducesToUncorrelated ==
    pc = "done" /\ Returned(sig_z) /\ Returned(sig_z_corr)
        /\ DiagonalOfSigmas(V_old, vars, point)
    => val.sig_z_corr = val.sig_z

\* both propagators evaluated for x/y with the symbolic C at rho = 0
C3_Witness ==
    /\ pc = "done"
    /\ z = z_4
    /\ v_old = <<x, y>>
    /\ V_old = C(sig_x, sig_y)
    /\ point.rho = <<0, 1>>
    /\ DiagonalOfSigmas(V_old, vars, point)
    /\ Returned(sig_z) /\ Returned(sig_z_corr)
    /\ IsReal(val.sig_z_corr)

\* the value of d f_a / d v_b at the point
GAt(a, b, pt) == Eval(Diff(f_new[a], v_old[b]), pt)

\* (G V G^T)[a][b] = sum over k, l of G[a][k] * V[k][l] * G[b][l], at pt
GVGt(a, b, pt) ==
    VSum([k \in 1..Len(v_old) |->
            VSum([l \in 1..Len(v_old) |->
                    VMul(VMul(GAt(a, k, pt), Eval(V_old[k][l], pt)),
                         GAt(b, l, pt))], Len(v_old))], Len(v_old))

\* C4: for M expressions f, N variables v and an N-by-N matrix V,
\* congruence_trafo returns an M-by-M matrix U whose entry U[a][b] is, at
\* every substituted point, the sum over i, j of G[a][i] * V[i][j] * G[b][j]
\* with G[a][i] = d f_a / d v_i.
C4_CongruenceIsGVGt ==
    /\ (U # <<>> => IsSquareFor(U, Len(f_new)))
    /\ (pc = "done" /\ U # <<>> =>
            \A a \in 1..Len(f_new) : \A b \in 1..Len(f_new) :
                val.U[a][b] = GVGt(a, b, point))

\* the polar transform at (3, 4) with rho # 0: every entry of U is a non-zero
\* real number
C4_Witness ==
    /\ pc = "done"
    /\ f_new = <<r_xy, th>>
    /\ v_old = <<x, y>>
    /\ V_old = C(sig_x, sig_y)
    /\ point.p1 = 3 /\ point.p2 = 4
    /\ point.rho # <<0, 1>>
    /\ U # <<>>
    /\ \A a \in 1..2 : \A b \in 1..2 :
          IsReal(val.U[a][b]) /\ val.U[a][b] # IntV(0)

\* C5 as stated: for one output expression the entry of the matrix returned
\* by congruence_trafo(Matrix([f]), v, V) equals the value returned by
\* error_prop_corr(f, v, V).
C5_AgreesWithErrorPropCorr ==
    pc = "done" /\ Len(f_new) = 1 /\ U # <<>> /\ Returned(sig_z_corr)
    => val.U[1][1] = val.sig_z_corr

\* C5 amended: for one output expression congruence_trafo returns the 1-by-1
\* matrix of the variance: its entry is the square of the value returned by
\* error_prop_corr, which is the standard deviation.
C5_EntryIsSquareOfErrorPropCorr ==
    pc = "done" /\ Len(f_new) = 1 /\ U # <<>> /\ Returned(sig_z_corr)
    => /\ IsSquareFor(U, 1)
       /\ val.U[1][1] = VSquare(val.sig_z_corr)

\* one expression, both functions evaluated, and the variance differs from
\* the standard deviation
C5_Witness ==
    /\ pc = "done"
    /\ Len(f_new) = 1
    /\ U # <<>>
    /\ Returned(sig_z_corr)
    /\ IsReal(val.sig_z_corr)
    /\ val.U[1][1] # val.sig_z_corr

\* W has the same value at [a][b] and [b][a], at the point pt
SymmetricAt(W, pt) ==
    \A a \in 1..Len(W) : \A b \in 1..Len(W[a]) :
        b <= Len(W) /\ a <= Len(W[b]) /\ Eval(W[a][b], pt) = Eval(W[b][a], pt)

\* C6: at every point where V is symmetric, the matrix U returned by
\* congruence_trafo is symmetric.
C6_SymmetricVGivesSymmetricU ==
    pc = "done" /\ U # <<>> /\ SymmetricAt(V_old, point)
    => \A a \in 1..Len(val.U) : \A b \in 1..Len(val.U[a]) :
          b <= Len(val.U) /\ a <= Len(val.U[b])
          /\ val.U[a][b] = val.U[b][a]

\* two expressions and a symmetric V with non-zero covariance, the
\* off-diagonal entry of U a non-zero real number
C6_Witness ==
    /\ pc = "done"
    /\ Len(f_new) = 2
    /\ U # <<>>
    /\ IsSquareFor(V_old, 2)
    /\ SymmetricAt(V_old, point)
    /\ Eval(V_old[1][2], point) # IntV(0)
    /\ IsReal(val.U[1][2]) /\ val.U[1][2] # IntV(0)

VDiv(a, b) == VMul(a, VInv(b))

\* the numbers the point substitutes
XAt(pt) == IntV(pt.p1)
YAt(pt) == IntV(pt.p2)
SxAt(pt) == Rat(pt.s[1][1], pt.s[1][2])
SyAt(pt) == Rat(pt.s[2][1], pt.s[2][2])
RhoAt(pt) == Rat(pt.rho[1], pt.rho[2])

\* the notebook's cell (i)/(ii): f of x and y, error_prop_corr(f, [x, y], C)
CorrCellOf(e) ==
    /\ pc = "done"
    /\ z = e
    /\ v_old = <<x, y>>
    /\ V_old = C(sig_x, sig_y)
    /\ Returned(sig_z_corr)

\* sx^2 + sy^2 + sgn * 2 * rho * sx * sy
SumDiffRadicand(pt, sgn) ==
    VAdd(VAdd(VSquare(SxAt(pt)), VSquare(SyAt(pt))),
         VMul(IntV(2 * sgn), VMul(RhoAt(pt), VMul(SxAt(pt), SyAt(pt)))))

\* C7: for f = x + y and f = x - y with C = [[sx^2, rho*sx*sy], [rho*sx*sy,
\* sy^2]], error_prop_corr evaluates to sqrt(sx^2 + sy^2 + 2*rho*sx*sy) and
\* sqrt(sx^2 + sy^2 - 2*rho*sx*sy) at every substituted sx, sy, rho.
C7_SumAndDifference ==
    /\ (CorrCellOf(z_1) => val.sig_z_corr = VSqrt(SumDiffRadicand(point, 1)))
    /\ (CorrCellOf(z_2) => val.sig_z_corr = VSqrt(SumDiffRadicand(point, -1)))

\* x - y with rho # 0 evaluated: the sign of the mixed term matters
C7_Witness ==
    /\ CorrCellOf(z_2)
    /\ point.rho = <<1, 1>>
    /\ SxAt(point) # SyAt(point)
    /\ IsReal(val.sig_z_corr)
    /\ val.sig_z_corr # VSqrt(SumDiffRadicand(point, 1))

\* sqrt((sx/x)^2 + (sy/y)^2 + 2*rho*sx*sy/(x*y))
RelativeProduct(pt) ==
    VSqrt(VAdd(VAdd(VSquare(VDiv(SxAt(pt), XAt(pt))),
                    VSquare(VDiv(SyAt(pt), YAt(pt)))),
               VDiv(VMul(IntV(2), VMul(RhoAt(pt), VMul(SxAt(pt), SyAt(pt)))),
                    VMul(XAt(pt), YAt(pt)))))

\* C8 as stated: for f = x*y the quotient error_prop_corr(f, [x, y], C) / f
\* is sqrt((sx/x)^2 + (sy/y)^2 + 2*rho*sx*sy/(x*y)) for all non-zero x, y.
C8_RelativeUncertaintyAllSigns ==
    CorrCellOf(z_3) /\ point.p1 # 0 /\ point.p2 # 0
    => VDiv(val.sig_z_corr, val.z) = RelativeProduct(point)

\* C8 amended: the quotient is that square root for x*y > 0, and its
\* negative for x*y < 0 (the numerator is a non-negative root, f = x*y is
\* negative).
C8_RelativeUncertaintySigned ==
    CorrCellOf(z_3) /\ point.p1 # 0 /\ point.p2 # 0
    => VDiv(val.sig_z_corr, val.z) =
          IF point.p1 * point.p2 > 0 THEN RelativeProduct(point)
          ELSE VNeg(RelativeProduct(point))

\* x*y evaluated at a point with x*y > 0 and a non-zero relative uncertainty
C8_Witness ==
    /\ CorrCellOf(z_3)
    /\ point.p1 * point.p2 > 0
    /\ IsReal(RelativeProduct(point))
    /\ RelativeProduct(point) # IntV(0)
    /\ VDiv(val.sig_z_corr, val.z) = RelativeProduct(point)

\* 333/106 < pi < 355/113
PiLo == <<333, 106>>
PiHi == <<355, 113>>

RECURSIVE RatLess(_, _, _, _)
\* a/b < c/d for a, c >= 0 and b, d > 0, by their continued fractions
RatLess(a, b, c, d) ==
    IF a \div b # c \div d THEN a \div b < c \div d
    ELSE IF c % d = 0 THEN FALSE
    ELSE IF a % b = 0 THEN TRUE
    ELSE RatLess(d, c % d, b, a % b)

RECURSIVE IPow(_, _)
IPow(n, k) == IF k = 0 THEN 1 ELSE n * IPow(n, k - 1)

\* the square of the positive number a = (n/d)*sqrt(r)*pi^k, k >= 0, with
\* pi replaced by the rational p: <<numerator, denominator>>
SquareWithPi(a, p) ==
    <<a[1] * a[1] * a[3] * IPow(p[1], 2 * a[4]), a[2] * a[2] * IPow(p[2], 2 * a[4])>>

\* |a - m/1000| < 1/1000 for the positive number a: in thousandths, a is m
Near(a, m) ==
    /\ IsReal(a) /\ a[1] > 0 /\ a[4] >= 0
    /\ RatLess((m - 1) * (m - 1), 1000000,
               SquareWithPi(a, PiLo)[1], SquareWithPi(a, PiLo)[2])
    /\ RatLess(SquareWithPi(a, PiHi)[1], SquareWithPi(a, PiHi)[2],
               (m + 1) * (m + 1), 1000000)

\* a < b for positive numbers with the same power of pi
LessSamePi(a, b) ==
    /\ IsReal(a) /\ IsReal(b) /\ a[1] > 0 /\ b[1] > 0 /\ a[4] = b[4]
    /\ RatLess(a[1] * a[1] * a[3], a[2] * a[2], b[1] * b[1] * b[3], b[2] * b[2])

\* the cylinder cells at r = 2, h = 3, sigma_r = sigma_h = 0.05
CylinderCase ==
    /\ pc = "done"
    /\ z = Vol
    /\ v_old = <<h, r>>
    /\ point.p1 = 3 /\ point.p2 = 2
    /\ point.s = << <<1, 20>>, <<1, 20>> >>
    /\ Returned(sig_z)

CylinderCorrelated ==
    /\ CylinderCase
    /\ V_old = C(sig_h, sig_r)
    /\ point.rho = <<1, 1>>
    /\ Returned(sig_z_corr)

\* C9: for V = pi*r^2*h at r = 2, h = 3, sigma_r = sigma_h = 0.05 the volume
\* is 12*pi, about 37.699; error_prop gives sigma_V with sigma_V^2 =
\* 0.4*pi^2, about 1.987; error_prop_corr with rho = 1 gives sigma_V with
\* sigma_V^2 = 0.64*pi^2, about 2.513, strictly greater than the
\* uncorrelated one.
C9_Cylinder ==
    /\ (CylinderCase =>
            /\ val.z = <<12, 1, 1, 1>>
            /\ Near(val.z, 37699)
            /\ VSquare(val.sig_z) = <<2, 5, 1, 2>>
            /\ Near(val.sig_z, 1987))
    /\ (CylinderCorrelated =>
            /\ VSquare(val.sig_z_corr) = <<16, 25, 1, 2>>
            /\ Near(val.sig_z_corr, 2513)
            /\ LessSamePi(val.sig_z, val.sig_z_corr))

\* both cylinder cells evaluated at the stated numbers with rho = 1
C9_Witness ==
    /\ CylinderCorrelated
    /\ IsReal(val.sig_z) /\ IsReal(val.sig_z_corr)

\* the polar cell with uncorrelated inputs: V diagonal at the point
PolarUncorrelated ==
    /\ pc = "done"
    /\ f_new = <<r_xy, th>>
    /\ v_old = <<x, y>>
    /\ U # <<>>
    /\ DiagonalOfSigmas(V_old, vars, point)

\* C10 as stated: for the polar transform with V diagonal and sigma_x =
\* sigma_y, at every point with x # 0 and y # 0 the off-diagonal entries of
\* U are non-zero.
C10_OffDiagonalNonZeroEqualSigmas ==
    PolarUncorrelated /\ SxAt(point) = SyAt(point)
        /\ point.p1 # 0 /\ point.p2 # 0
    => val.U[1][2] # IntV(0) /\ val.U[2][1] # IntV(0)

\* C10 amended: for the polar transform with V diagonal, at every point with
\* x # 0 and y # 0 the two off-diagonal entries of U are equal, and they
\* are non-zero exactly when sigma_x^2 # sigma_y^2: with sigma_x = sigma_y
\* they are zero.
C10_OffDiagonalNonZeroIffSigmasDiffer ==
    PolarUncorrelated /\ point.p1 # 0 /\ point.p2 # 0
    => /\ val.U[1][2] = val.U[2][1]
       /\ IsFinite(val.U[1][2])
       /\ (val.U[1][2] # IntV(0)
              <=> VSquare(SxAt(point)) # VSquare(SyAt(point)))

\* the polar cell at (3, 4) with sigma_x = 2, sigma_y = 1, rho = 0:
\* U[0][1] = x*y*(sy^2 - sx^2)/(x^2 + y^2)^(3/2) = -36/125
C10_Witness ==
    /\ PolarUncorrelated
    /\ point.p1 = 3 /\ point.p2 = 4
    /\ SxAt(point) # SyAt(point)
    /\ val.U[1][2] = Rat(-36, 125)

\* the polar cell with V diagonal and sigma_x = sigma_y at (x, y) = (3, 4),
\* error_prop_corr called for r = sqrt(x^2 + y^2) with the same V
PolarEqualSigmasAt34 ==
    /\ PolarUncorrelated
    /\ SxAt(point) = SyAt(point)
    /\ point.p1 = 3 /\ point.p2 = 4
    /\ z = r_xy
    /\ Returned(sig_z_corr)

\* C11 as stated: for the polar transform with V diagonal and sigma_x =
\* sigma_y = sigma at (3, 4), U[0][0] equals the value error_prop_corr
\* returns for r = sqrt(x^2 + y^2) with the same V at the same point.
C11_PolarEntryEqualsErrorPropCorr ==
    PolarEqualSigmasAt34 => val.U[1][1] = val.sig_z_corr

\* C11 amended: there U[0][0] is the variance of r, sigma^2: the square of
\* the value error_prop_corr returns, which is the standard deviation sigma.
C11_PolarEntryIsSquareOfErrorPropCorr ==
    PolarEqualSigmasAt34
    => /\ val.U[1][1] = VSquare(val.sig_z_corr)
       /\ val.U[1][1] = VSquare(SxAt(point))
       /\ val.sig_z_corr = SxAt(point)

\* the case at sigma = 0.05: U[0][0] = 1/400 and error_prop_corr gives 1/20
C11_Witness ==
    /\ PolarEqualSigmasAt34
    /\ val.U[1][1] = Rat(1, 400)
    /\ val.sig_z_corr = Rat(1, 20)

\* error_prop_corr ran over a full V whose radicand sum_{a,b} (df/dx_a)
\* (df/dx_b) V[a][b] is a negative number at the substituted point
NegativeRadicand ==
    /\ pc = "done"
    /\ IsSquareFor(V_old, Len(v_old))
    /\ IsReal(RadicandCorr(z, v_old, V_old, point))
    /\ RadicandCorr(z, v_old, V_old, point)[1] < 0

\* C12: when V is not positive-semidefinite and the radicand is negative at
\* the evaluation point, the outcome of error_prop_corr is a domain error (an
\* explicit failure, or a value that is not a number), and never an ordinary
\* real uncertainty.
C12_NegativeRadicandIsDomainError ==
    NegativeRadicand
    => /\ "error_prop_corr" \in raised \/ ~IsFinite(val.sig_z_corr)
       /\ ~IsReal(val.sig_z_corr)

\* V does not have len(x) rows of len(x) entries
DimensionMismatch(W, xs) ==
    Len(W) # Len(xs) \/ \E a \in 1..Len(W) : Len(W[a]) # Len(xs)

\* C13: when the dimension of V does not match len(x) (V smaller or larger),
\* the call of error_prop_corr fails with an error and returns no
\* uncertainty.
C13_DimensionMismatchFails ==
    pc \in {"cell_congruence_trafo", "cell_subs", "done"}
        /\ DimensionMismatch(V_old, v_old)
    => "error_prop_corr" \in raised /\ ~Returned(sig_z_corr)

\* C14: error_prop, error_prop_corr and congruence_trafo are pure: no step of
\* a call changes its arguments f, vars / x, V, nor a binding of the
\* notebook's namespace: the global x and the built-in sum stay bound as
\* before, and the names i, j, sigma, G stay unbound.
C14_CallsArePure ==
    [][ /\ f_new' = f_new
        /\ v_old' = v_old
        /\ V_old' = V_old
        /\ ns' = ns ]_vars_all

\* error_prop has returned after its loop bound the local x to y and the
\* local sum to the sum, with the global x and the built-in sum in place
C14_Witness ==
    /\ pc = "cell_error_prop_corr"
    /\ frame.x = y
    /\ sum # S(0)
    /\ ns["x"] = x
    /\ ns["sum"] = BuiltinSum
    /\ ns["sigma"] = Unbound


(***************************************************************************)
(* The oscillator notebook: properties                                     *)
(***************************************************************************)
\* the angle lies in (-pi, 0]: arctan(t) with t <= 0, or arctan(t) - pi
\* with t > 0 (arctan(t) = -pi/2 at t = -inf is inside, nan is not)
InHalfOpenInterval(phi) ==
    /\ ~IsNaN(phi.t)
    /\ \/ phi.k = 0 /\ phi.t[1] <= 0
       \/ phi.k = -1 /\ phi.t[1] > 0

\* the arguments of the last call of phase are finite
FiniteArgs ==
    /\ ph # <<>>
    /\ \A k \in 1..Len(AsArray(ph.omega)) :
          ~IsNaN(AsArray(ph.omega)[k].v) /\ ~IsInf(AsArray(ph.omega)[k].v)
    /\ ~IsNaN(ph.omega_0) /\ ~IsInf(ph.omega_0)
    /\ ~IsNaN(ph.beta) /\ ~IsInf(ph.beta)

\* C15: for finite omega, omega_0 and beta every element phase returns lies
\* in (-pi, 0], the guarded case omega_0^2 - omega^2 = 0 included
C15_PhaseInHalfOpenInterval ==
    FiniteArgs /\ ~ph.raised =>
        \A k \in 1..Len(ph.phi) : InHalfOpenInterval(ph.phi[k])


\* the five data arrays an execution of the generate-data cell bound
Arrays(run) ==
    <<run.bound.t_data, run.bound.x_data, run.bound.omega_data,
      run.bound.A_data, run.bound.ph_data>>

\* C16: any two executions of the generate-data cell bind identical t_data,
\* x_data, omega_data, A_data and ph_data, whatever was drawn from the
\* random source before the cell ran
C16_GenerateDataReproducible ==
    \A a \in 1..Len(runs) : \A b \in 1..Len(runs) :
        Arrays(runs[a]) = Arrays(runs[b])

\* two executions, the source in different states before them
C16_Witness ==
    /\ Len(runs) = 2
    /\ runs[1].before # runs[2].before
    /\ runs[1].bound.x_data[1].r.state = RngNext(seed(Stream(runs[1].before), 1000))
    /\ runs[2].bound.x_data = runs[1].bound.x_data


\* the numbers written on a line of a file
Columns(line) == [c \in 1..Len(line) |-> line[c].v]

\* C17: the free-oscillator file has one row per sample point, 50 rows of
\* (time, position, uncertainty) with the uncertainty sigma_x in every row;
\* the driven-oscillator file has 25 rows of (frequency, amplitude,
\* amplitude uncertainty, phase, phase uncertainty) with the uncertainties
\* sigma_A and sigma_ph in every row; each file has exactly one header line
C17_FilesRowsAndColumns ==
    opc = "written" =>
        /\ Len(files.damped_free_oscillator.rows) = 50
        /\ Len(files.damped_free_oscillator.rows) = Len(data.t_data)
        /\ \A k \in 1..Len(files.damped_free_oscillator.rows) :
              Columns(files.damped_free_oscillator.rows[k])
                  = <<data.t_data[k], data.x_data[k], NpFloat(data.sigma_x)>>
        /\ Len(files.driven_oscillator.rows) = 25
        /\ Len(files.driven_oscillator.rows) = Len(data.omega_data)
        /\ \A k \in 1..Len(files.driven_oscillator.rows) :
              Columns(files.driven_oscillator.rows[k])
                  = <<data.omega_data[k], data.A_data[k], NpFloat(data.sigma_A),
                      data.ph_data[k], NpFloat(data.sigma_ph)>>
        /\ Len(files.damped_free_oscillator.header) = 1
        /\ Len(files.driven_oscillator.header) = 1

\* both files written after the data was generated
C17_Witness ==
    /\ opc = "written"
    /\ Len(runs) = 1
    /\ Len(files.driven_oscillator.rows) = npoints_omega
    /\ Columns(files.driven_oscillator.rows[9])[1] = NpFloat(Flt(4, 1))
    /\ Columns(files.damped_free_oscillator.rows[1])[3] = NpFloat(Flt(5, 1000))


(***************************************************************************)
(* The polar transform at the origin                                       *)
(***************************************************************************)
\* the polar cell, congruence_trafo([r, theta], [x, y], C) with one of the
\* notebook's covariance matrices, substituted at (x, y) = (0, 0)
PolarAtOrigin ==
    /\ pc = "done"
    /\ f_new = <<r_xy, th>>
    /\ v_old = <<x, y>>
    /\ V_old \in { C(sig_x, sig_y), C0(sig_x, sig_y) }
    /\ U # <<>>
    /\ point.p1 = 0
    /\ point.p2 = 0

DrivenHeaderNames == <<data.omega_data, data.A_data, data.ph_data>>

\* C20: the header of the driven-oscillator file describes its columns:
\* column 1 of every row is the driving frequency, column 2 the amplitude
\* and column 3 the phase shift
C20_DrivenHeaderDescribesColumns ==
    opc = "written" =>
        /\ files.driven_oscillator.header[1][2] = HeaderDriven[1]
        /\ \A k \in 1..Len(files.driven_oscillator.rows) :
              \A c \in 1..Len(DrivenHeaderNames) :
                  Columns(files.driven_oscillator.rows[k])[c]
                      = DrivenHeaderNames[c][k]


(***************************************************************************)
(* Re-executing a cell                                                     *)
(***************************************************************************)
\* the first cell executed again after the top-to-bottom run gave the
\* output it gave during the run
FirstRerunReproduces == reruns[1].out = shown[reruns[1].cell]

\* C21 as stated: after a complete top-to-bottom run, re-executing any
\* single cell reproduces the output the cell gave during the run
C21_AnyRerunReproduces == Len(reruns) >= 1 => FirstRerunReproduces

\* C21: after a complete top-to-bottom run, re-executing a single cell
\* reproduces its output exactly for the cells that bind every name they
\* read, (i), case 1, the polar cell and the rho = 0 cell; cell (ii), which
\* reads the global C, and cells (iii) and case 2, which build C from the
\* global rho, give another output
C21_RerunReproducesIffSelfContained ==
    Len(reruns) >= 1 =>
        (FirstRerunReproduces
            <=> CellNames[reruns[1].cell] \in {"i", "case1", "polar", "rho0"})

C21_Witness ==
    /\ Len(reruns) = 1
    /\ CellNames[reruns[1].cell] = "iii"
    /\ kernel.rho = S(0)
    /\ shown[3] = <<error_prop_corr(g, <<L, T>>, C(sig_L, sig_T))>>
    /\ reruns[1].out = <<error_prop_corr(g, <<L, T>>, C0(sig_L, sig_T))>>
    /\ reruns[1].out # shown[3]


(***************************************************************************)
(* phase: scalars and arrays                                               *)
(***************************************************************************)
\* the number of frequencies passed to the last call of phase
Frequencies == IF ph.omega.type = "ndarray" THEN Len(ph.omega.a) ELSE 1

\* the last call returned an array with one phase per frequency
OnePhasePerFrequency ==
    /\ ~ph.raised
    /\ Len(ph.phi) = Frequencies
    /\ \A k \in 1..Len(ph.phi) : ph.phi[k].k \in {-1, 0}

CovarianceMatrixCase ==
    /\ pc = "done"
    /\ Len(v_old) = 2
    /\ Returned(sig_z_corr)
    /\ \E c \in 1..Len(Cells) : V_old = C(Cells[c].s[1], Cells[c].s[2])

\* the number under the square root at the substituted point
RadicandAtPoint == RadicandCorr(z, v_old, V_old, point)

\* C23: for a covariance matrix [[sx^2, rho*sx*sy], [rho*sx*sy, sy^2]] with
\* -1 <= rho <= 1 the radicand a^2 sx^2 + b^2 sy^2 + 2 a b rho sx sy under
\* the square root of error_prop_corr is not negative, whatever the values
\* a, b of the partial derivatives, and the value returned is not imaginary
C23_RadicandNonNegative ==
    CovarianceMatrixCase /\ IsFinite(RadicandAtPoint) =>
        /\ RadicandAtPoint[1] >= 0
        /\ RadicandAtPoint[3] > 0
        /\ val.sig_z_corr[3] > 0

\* z = x - y with equal sigmas and rho = 1: the radicand is exactly 0
C23_Witness ==
    /\ CovarianceMatrixCase
    /\ z = z_2
    /\ v_old = <<x, y>>
    /\ RhoAt(point) = IntV(1)
    /\ SxAt(point) = SyAt(point)
    /\ RadicandAtPoint = IntV(0)
    /\ val.sig_z_corr = IntV(0)


(***************************************************************************)
(* The generated frequency grid                                            *)
(***************************************************************************)
\* the denominator omega_0^2 - omega^2 of phase at the k-th grid point, for
\* the cell's omega_0 = 4
DenAt(k) ==
    FSub(FMul(Flt(4, 1), Flt(4, 1)),
         FMul(data.omega_data[k].v, data.omega_data[k].v))

\* a is a finite number below (above) b
FLess(a, b) ==
    /\ ~IsNaN(a) /\ ~IsInf(a) /\ ~IsNaN(b) /\ ~IsInf(b)
    /\ a[1] * b[2] < b[1] * a[2]

\* the angle lies in (-pi/2, 0): arctan of a finite negative number
InUpperQuarter(phi) == phi.k = 0 /\ FLess(phi.t, Flt(0, 1))

\* the angle lies in (-pi, -pi/2): arctan of a finite positive number, - pi
InLowerQuarter(phi) == phi.k = -1 /\ FLess(Flt(0, 1), phi.t)

\* C24: omega_data, 25 equally spaced points from 3 to 6, contains the
\* resonance omega_0 = 4; there the denominator is 0, the quotient is the
\* preset +inf and the phase is arctan(+inf) - pi = -pi/2; below omega_0 the
\* phase lies in (-pi/2, 0), above it in (-pi, -pi/2)
C24_ResonanceOnGrid ==
    data # <<>> =>
        /\ Len(data.omega_data) = 25
        /\ data.omega_data[1] = NpFloat(Flt(3, 1))
        /\ data.omega_data[25] = NpFloat(Flt(6, 1))
        /\ \A k \in 2..25 :
              FSub(data.omega_data[k].v, data.omega_data[k - 1].v) = Flt(1, 8)
        /\ \E k \in 1..25 : data.omega_data[k] = NpFloat(Flt(4, 1))
        /\ \A k \in 1..25 :
              /\ data.omega_data[k].v = Flt(4, 1) =>
                    /\ DenAt(k) = Flt(0, 1)
                    /\ data.ph_smooth[k] = [t |-> PInf, k |-> -1]
              /\ FLess(data.omega_data[k].v, Flt(4, 1)) =>
                    InUpperQuarter(data.ph_smooth[k])
              /\ FLess(Flt(4, 1), data.omega_data[k].v) =>
                    InLowerQuarter(data.ph_smooth[k])

\* the data was generated: the ninth grid point is the resonance
C24_Witness ==
    /\ data # <<>>
    /\ data.omega_data[9] = NpFloat(Flt(4, 1))
    /\ data.ph_smooth[9] = [t |-> PInf, k |-> -1]
    /\ data.ph_smooth[8] = [t |-> Flt(-248, 105), k |-> 0]
    /\ InLowerQuarter(data.ph_smooth[10])


(***************************************************************************)
(* The polar transform of uncorrelated x and y                             *)
(***************************************************************************)
VSub(a, b) == VAdd(a, VNeg(b))

\* x^2 + y^2 at the point pt
RadiusSquaredAt(pt) == VAdd(VSquare(XAt(pt)), VSquare(YAt(pt)))

\* (sx^2 x^2 + sy^2 y^2)/(x^2 + y^2)
PolarVarR(pt) ==
    VDiv(VAdd(VMul(VSquare(SxAt(pt)), VSquare(XAt(pt))),
              VMul(VSquare(SyAt(pt)), VSquare(YAt(pt)))),
         RadiusSquaredAt(pt))

\* (sx^2 y^2 + sy^2 x^2)/(x^2 + y^2)^2
PolarVarTheta(pt) ==
    VDiv(VAdd(VMul(VSquare(SxAt(pt)), VSquare(YAt(pt))),
              VMul(VSquare(SyAt(pt)), VSquare(XAt(pt)))),
         VSquare(RadiusSquaredAt(pt)))

\* x y (sy^2 - sx^2)/(x^2 + y^2)^(3/2)
PolarCov(pt) ==
    VDiv(VMul(VMul(XAt(pt), YAt(pt)),
              VSub(VSquare(SyAt(pt)), VSquare(SxAt(pt)))),
         VPow(VSqrt(RadiusSquaredAt(pt)), 3))

\* C25: for the polar transform with V = diag(sx^2, sy^2) the matrix
\* congruence_trafo returns has, away from the origin, the entries
\* U[0][0] = (sx^2 x^2 + sy^2 y^2)/(x^2 + y^2),
\* U[1][1] = (sx^2 y^2 + sy^2 x^2)/(x^2 + y^2)^2 and
\* U[0][1] = U[1][0] = x y (sy^2 - sx^2)/(x^2 + y^2)^(3/2); the off-diagonal
\* entries are 0 exactly when x = 0 or y = 0 or sx^2 = sy^2
C25_PolarUncorrelatedEntries ==
    PolarUncorrelated /\ (point.p1 # 0 \/ point.p2 # 0) =>
        /\ val.U[1][1] = PolarVarR(point)
        /\ val.U[2][2] = PolarVarTheta(point)
        /\ val.U[1][2] = PolarCov(point)
        /\ val.U[2][1] = PolarCov(point)
        /\ (val.U[1][2] = IntV(0)
               <=> \/ point.p1 = 0
                   \/ point.p2 = 0
                   \/ VSquare(SxAt(point)) = VSquare(SyAt(point)))

\* x = 1, y = 2, sx = 2, sy = 1: U[0][1] = 2*(1 - 4)/5^(3/2) = -6 sqrt(5)/25
C25_Witness ==
    /\ PolarUncorrelated
    /\ V_old = C0(sig_x, sig_y)
    /\ point.p1 = 1 /\ point.p2 = 2
    /\ SxAt(point) = IntV(2) /\ SyAt(point) = IntV(1)
    /\ val.U[1][2] = <<-6, 25, 5, 0>>
    /\ val.U[1][1] = Rat(8, 5)


(***************************************************************************)
(* The order of the draws                                                  *)
(***************************************************************************)
\* the start of the stream of the seed 1000
Seeded == seed(Stream(0), 1000)

\* the stream positions of the samples added to the data points of a run
PositionsUsed(run) ==
    { run.bound.x_data[k].r.state.n : k \in 1..Len(run.bound.x_data) }
    \cup { run.bound.A_data[k].r.state.n : k \in 1..Len(run.bound.A_data) }
    \cup { run.bound.ph_data[k].r.state.n : k \in 1..Len(run.bound.ph_data) }

\* C26: in one execution of the generate-data cell the source is seeded
\* once, before any draw, and the noise is drawn in the order 50 samples
\* for x_data, 25 for A_data, 25 for ph_data: the k-th point of x_data has
\* sample k of the seeded stream, of A_data sample 50 + k, of ph_data
\* sample 75 + k, and no sample is used for two data points
C26_DrawOrder ==
    \A a \in 1..Len(runs) :
        /\ Len(runs[a].bound.x_data) = 50
        /\ Len(runs[a].bound.A_data) = 25
        /\ Len(runs[a].bound.ph_data) = 25
        /\ \A k \in 1..50 :
              runs[a].bound.x_data[k].r.state = RngAfter(Seeded, k)
        /\ \A k \in 1..25 :
              /\ runs[a].bound.A_data[k].r.state = RngAfter(Seeded, 50 + k)
              /\ runs[a].bound.ph_data[k].r.state = RngAfter(Seeded, 75 + k)
        /\ PositionsUsed(runs[a]) = 1..100

\* an execution that found the source in a state other than the seeded one
C26_Witness ==
    /\ Len(runs) = 1
    /\ Stream(runs[1].before) # Seeded
    /\ runs[1].bound.x_data[1].r.state.n = 1
    /\ runs[1].bound.ph_data[25].r.state.n = 100
    /\ rng = Class(RngAfter(Seeded, 100))


(***************************************************************************)
(* The radicand of A                                                       *)
(***************************************************************************)
\* A returned for the drawn arguments
AReturned == amp # <<>> /\ amp.called /\ ~amp.raised

\* the arguments are those of the generate-data cell: omega a point of
\* omega_data, omega_0 = 4, beta = 0.3
OnGeneratedData ==
    /\ \E k \in 1..npoints_omega :
          amp.omega = linspace(Flt(3, 1), Flt(6, 1), npoints_omega)[k].v
    /\ amp.omega_0 = Flt(4, 1)
    /\ amp.beta = Flt(3, 10)

\* C27, on the generated data: the radicand of A is strictly positive, A
\* does not divide by zero
C27_RadicandPositiveOnData ==
    AReturned /\ OnGeneratedData =>
        FLess(Flt(0, 1), amp.A[1].radicand)

\* C27: on the generated data the radicand (omega^2 - omega_0^2)^2 +
\* (2 beta omega)^2 of A is strictly positive, and in general it is zero
\* only when omega^2 = omega_0^2 and beta * omega = 0
C27_RadicandZeroOnlyAtUndampedResonance ==
    /\ C27_RadicandPositiveOnData
    /\ AReturned /\ amp.A[1].radicand = Flt(0, 1) =>
          /\ FMul(amp.omega, amp.omega) = FMul(amp.omega_0, amp.omega_0)
          /\ FMul(amp.beta, amp.omega) = Flt(0, 1)


(***************************************************************************)
(* error_prop_corr and the symmetric part of V                             *)
(***************************************************************************)
\* the matrix with the entries (V[i][j] + V[j][i]) / 2
SymmetricPart(W) ==
    [a \in 1..Rows(W) |-> [b \in 1..Cols(W) |->
        Div(Add(W[a][b], W[b][a]), S(2))]]

\* the value at the substituted point of what error_prop_corr returns for
\* the matrix W, NoVal when it raises
CorrValueFor(W) ==
    LET res == error_prop_corr(z, v_old, W)
    IN  IF res = IndexError THEN NoVal ELSE Eval(res, point)

\* the call of error_prop_corr is over and its result substituted
CorrSubstituted ==
    pc = "done" /\ (sig_z_corr # None \/ "error_prop_corr" \in raised)

\* C28: error_prop_corr(f, x, V) has the value of error_prop_corr(f, x, V^T)
\* and of error_prop_corr for the matrix of the entries (V[i][j] + V[j][i])/2,
\* for asymmetric V too; one call raises exactly when the others do
C28_SymmetricPartOnly ==
    CorrSubstituted =>
        /\ CorrValueFor(Transpose(V_old)) = val.sig_z_corr
        /\ CorrValueFor(SymmetricPart(V_old)) = val.sig_z_corr

C28_Witness ==
    /\ CorrSubstituted
    /\ z = z_3
    /\ v_old = <<x, y>>
    /\ V_old = << <<S(1), S(2)>>, <<S(0), S(1)>> >>
    /\ point.p1 = 1
    /\ point.p2 = 2
    /\ val.sig_z_corr = IntV(3)
    /\ CorrValueFor(Transpose(V_old)) = IntV(3)


(***************************************************************************)
(* The order in which the variables are listed                             *)
(***************************************************************************)
\* a list in the opposite order: for the two variables of a cell, the one
\* permutation that is not the identity
Reversed(vs) == [k \in 1..Len(vs) |-> vs[Len(vs) + 1 - k]]

\* the rows and the columns of the variables listed, permuted as Reversed
\* permutes the list
RowsAndColumnsReversed(W, n) ==
    [a \in 1..Rows(W) |-> [b \in 1..Len(W[a]) |->
        IF a <= n /\ b <= n /\ InRange(W, n + 1 - a, n + 1 - b)
        THEN W[n + 1 - a][n + 1 - b]
        ELSE W[a][b]]]

\* the value at the substituted point of error_prop for the pairs vs
PropValueFor(vs) == Eval(error_prop(z, vs), point)

\* the value at the substituted point of error_prop_corr for the list xs
\* and the matrix W, NoVal when it raises
CorrValueOf(xs, W) ==
    LET res == error_prop_corr(z, xs, W)
    IN  IF res = IndexError THEN NoVal ELSE Eval(res, point)

\* C29: the propagated uncertainty is the same when the variables are
\* listed in another order: error_prop for the permuted pairs, and
\* error_prop_corr for the permuted list with the rows and columns of V
\* permuted alike, have the value of the call made
C29_OrderOfVariables ==
    /\ pc = "done" /\ sig_z # None =>
          PropValueFor(Reversed(vars)) = val.sig_z
    /\ CorrSubstituted =>
          CorrValueOf(Reversed(v_old),
                      RowsAndColumnsReversed(V_old, Len(v_old)))
              = val.sig_z_corr

\* the cylinder, listed as [(r, sig_r), (h, sig_h)], with the matrix C
C29_Witness ==
    /\ pc = "done"
    /\ z = Vol
    /\ v_old = <<r, h>>
    /\ V_old = C(sig_h, sig_r)
    /\ Reversed(vars) = << <<h, sig_h>>, <<r, sig_r>> >>
    /\ sig_z # None
    /\ sig_z_corr # None
    /\ point.p1 = 3
    /\ point.p2 = 2
    /\ IsReal(val.sig_z)
    /\ PropValueFor(Reversed(vars)) = val.sig_z

=============================================================================
